---- MODULE Spec2Model ----
(***************************************************************************)
(* Model of edx/analytics/tasks/canonicalization.py: the ingestion ledger  *)
(* (class Metadata), the batch planner (CanonicalizationTask.initialize),  *)
(* the source enumeration (_get_requirements) and the run lifecycle        *)
(* (complete / requires / run).                                            *)
(*                                                                         *)
(* Strings are sequences of character codes, so that the text format of    *)
(* the ledger file ('{0}\t{1}\n'.format, line iteration, str.split, int)   *)
(* is computed character by character.                                     *)
(***************************************************************************)
EXTENDS Integers, Sequences, FiniteSets, TLC

(***************************************************************************)
(* Bounds of the model.                                                    *)
(***************************************************************************)
\* largest files_per_batch a run is configured with (0 is included)
MaxCapacity == 2
\* largest number of files the source locations ever hold
MaxFiles == 2
\* largest number of lines a map worker is given
MaxLines == 2
\* largest number of executions of reducer for one key
MaxAttempts == 2
\* largest batch id handed to register_url in the ledger-only specification
MaxBatchId == 2
\* longest sequence of register_url calls in the ledger-only specification
MaxRegistrations == 3

(***************************************************************************)
(* Characters.                                                             *)
(***************************************************************************)
\* '\t', the separator of line.split('\t') and of the format string
TAB == 9
\* '\n', the line terminator written by to_file
NL == 10
\* '0', the first decimal digit
ZERO == 48
\* '-' and '+', the signs int() accepts
MINUS == 45
PLUS == 43
\* the characters str.strip() and int() treat as white space
WHITESPACE == {9, 10, 11, 12, 13, 32}
DIGITS == 48..57

(***************************************************************************)
(* The files of the model: "x" at the top of the tree, "dx" and "dy" in    *)
(* the directory "d" ('d' = 100, 'x' = 120, 'y' = 121).  A source location *)
(* is the prefix of the paths below it: "" is the whole tree, "d" the      *)
(* directory.                                                              *)
(***************************************************************************)
AllPaths == {<<120>>, <<100, 120>>, <<100, 121>>}
\* the values of the `source` list parameter that are explored
SourceLists == {<< <<>> >>, << <<100>> >>, << <<>>, <<100>> >>, << <<100>>, <<100>> >>}

\* the prefixes tested by source.startswith('s3') and
\* source.startswith('hdfs')
S3 == <<115, 51>>
HDFS == <<104, 100, 102, 115>>
\* one file per storage backend: "s3x" below the source "s3", "hdfsx" below
\* "hdfs" and "dx" below the local directory "d"
SchemePaths == {<<115, 51, 120>>, <<104, 100, 102, 115, 120>>, <<100, 120>>}
SchemeSourceLists ==
    {<<S3>>, <<HDFS>>, << <<100>> >>, <<S3, HDFS, <<100>> >>}

(***************************************************************************)
(* String helpers: Python's str comparison, '{0}'.format(int), int(str),   *)
(* str.split('\t') and iteration over the lines of a file.                 *)
(***************************************************************************)
\* s < t for Python 2 str: lexicographic on the character codes, a proper
\* prefix is smaller
StrLess(s, t) ==
    \E i \in 1..Len(t) :
        /\ \A j \in 1..(i - 1) : j <= Len(s) /\ s[j] = t[j]
        /\ \/ i = Len(s) + 1
           \/ i <= Len(s) /\ s[i] < t[i]

Range(list) == {list[i] : i \in 1..Len(list)}
Front(s) == SubSeq(s, 1, Len(s) - 1)
Last(s) == s[Len(s)]

\* '{0}'.format(n) for an int n: its decimal digits, '-' first when negative
RECURSIVE format_int(_)
format_int(n) ==
    IF n < 0 THEN <<MINUS>> \o format_int(0 - n)
    ELSE IF n < 10 THEN <<ZERO + n>>
    ELSE format_int(n \div 10) \o <<ZERO + (n % 10)>>

\* str.strip(): leading and trailing white space removed
RECURSIVE lstrip(_)
lstrip(s) == IF s # <<>> /\ Head(s) \in WHITESPACE THEN lstrip(Tail(s)) ELSE s
RECURSIVE rstrip(_)
rstrip(s) == IF s # <<>> /\ Last(s) \in WHITESPACE THEN rstrip(Front(s)) ELSE s
strip(s) == rstrip(lstrip(s))

RECURSIVE digits_value(_)
digits_value(s) ==
    IF s = <<>> THEN 0 ELSE digits_value(Front(s)) * 10 + (Last(s) - ZERO)

\* int(s): white space stripped, an optional sign, then at least one digit
\* and nothing else; anything else raises ValueError (ok = FALSE)
int(s) ==
    LET t == strip(s)
        signed == t # <<>> /\ Head(t) \in {MINUS, PLUS}
        body == IF signed THEN Tail(t) ELSE t
        good == body # <<>> /\ \A i \in 1..Len(body) : body[i] \in DIGITS
    IN  IF ~good THEN [ok |-> FALSE, val |-> 0]
        ELSE [ok |-> TRUE,
              val |-> IF signed /\ Head(t) = MINUS THEN 0 - digits_value(body)
                      ELSE digits_value(body)]

\* index of the first occurrence of character c in s, 0 when there is none
IndexOf(s, c) ==
    IF \E i \in 1..Len(s) : s[i] = c
    THEN CHOOSE i \in 1..Len(s) : s[i] = c /\ \A j \in 1..(i - 1) : s[j] # c
    ELSE 0

\* line.split('\t'): the list of the fields between the tabs
RECURSIVE split(_)
split(line) ==
    LET i == IndexOf(line, TAB)
    IN  IF i = 0 THEN <<line>>
        ELSE <<SubSeq(line, 1, i - 1)>> \o split(SubSeq(line, i + 1, Len(line)))

\* `for line in metadata_file`: the lines of the file, each one with its
\* terminating '\n' (the last one without it when the file does not end in
\* '\n')
RECURSIVE readlines(_)
readlines(data) ==
    LET i == IndexOf(data, NL)
    IN  IF data = <<>> THEN <<>>
        ELSE IF i = 0 THEN <<data>>
        ELSE <<SubSeq(data, 1, i)>> \o readlines(SubSeq(data, i + 1, Len(data)))

(***************************************************************************)
(* class Metadata: the ledger.                                             *)
(***************************************************************************)
EmptyMap == [u \in {} |-> 0]

\* Metadata.__init__
Metadata == [url_to_batch_id |-> EmptyMap, max_batch_id |-> 0]

\* a register_url that moves the high-water mark to the id just registered
register_url_last(metadata, batch_id, url) ==
    [url_to_batch_id |-> (url :> batch_id) @@ metadata.url_to_batch_id,
     max_batch_id |-> batch_id]

\* Metadata.register_url
register_url(metadata, batch_id, url) ==
    [url_to_batch_id |-> (url :> batch_id) @@ metadata.url_to_batch_id,
     max_batch_id |-> IF batch_id > metadata.max_batch_id THEN batch_id
                      ELSE metadata.max_batch_id]

\* Metadata.includes_url
includes_url(metadata, url) == url \in DOMAIN metadata.url_to_batch_id

\* Metadata.get_batch_id_for_url
get_batch_id_for_url(metadata, url) == metadata.url_to_batch_id[url]

\* the body of the loop of from_file for one line: ok = FALSE when the line
\* raises (int() of the first field, or no second field)
parse_line(line) ==
    LET split_line == split(line)
        batch_id == int(split_line[1])
    IN  IF ~batch_id.ok \/ Len(split_line) < 2
        THEN [ok |-> FALSE, batch_id |-> 0, url |-> <<>>]
        ELSE [ok |-> TRUE, batch_id |-> batch_id.val, url |-> split_line[2]]

\* Metadata.from_file over the lines read so far; ok = FALSE when a line
\* raised
RECURSIVE from_lines(_)
from_lines(lines) ==
    IF lines = <<>> THEN [ok |-> TRUE, metadata |-> Metadata]
    ELSE LET before == from_lines(Front(lines))
             rec == parse_line(Last(lines))
         IN  IF ~before.ok \/ ~rec.ok THEN [ok |-> FALSE, metadata |-> Metadata]
             ELSE [ok |-> TRUE,
                   metadata |-> register_url(before.metadata, rec.batch_id, rec.url)]

\* Metadata.from_file
from_file(data) == from_lines(readlines(data))

\* the iteration orders url_to_batch_id.iteritems() may have
RECURSIVE Orders(_)
Orders(S) ==
    IF S = {} THEN {<<>>}
    ELSE UNION {{<<u>> \o rest : rest \in Orders(S \ {u})} : u \in S}

\* Metadata.to_file, the dict iterated in the given order
RECURSIVE write_items(_, _)
write_items(metadata, order) ==
    IF order = <<>> THEN <<>>
    ELSE format_int(metadata.url_to_batch_id[Head(order)]) \o <<TAB>>
             \o Head(order) \o <<NL>> \o write_items(metadata, Tail(order))

to_file(metadata, order) == write_items(metadata, order)

(***************************************************************************)
(* Source enumeration and batch planning.                                  *)
(***************************************************************************)
IsPrefix(prefix, path) ==
    Len(prefix) < Len(path) /\ SubSeq(path, 1, Len(prefix)) = prefix

\* Insert(x, s): x put into the sorted list s behind every element that is
\* not greater than it, as the stable sort of sorted() does
RECURSIVE Insert(_, _)
Insert(x, s) ==
    IF s = <<>> THEN <<x>>
    ELSE IF StrLess(x, Head(s)) THEN <<x>> \o s
    ELSE <<Head(s)>> \o Insert(x, Tail(s))

\* sorted(list, key=attrgetter('url'))
RECURSIVE sorted(_)
sorted(list) ==
    IF list = <<>> THEN <<>> ELSE Insert(Last(list), sorted(Front(list)))

RECURSIVE SetToSeq(_)
SetToSeq(S) ==
    IF S = {} THEN <<>>
    ELSE LET u == CHOOSE v \in S : TRUE IN <<u>> \o SetToSeq(S \ {u})

\* str.startswith
startswith(s, prefix) ==
    Len(prefix) <= Len(s) /\ SubSeq(s, 1, Len(prefix)) = prefix

\* _get_s3_urls: the keys below the source whose size is greater than 0
get_s3_urls(location, present, zero_sized) ==
    SetToSeq({path \in present : IsPrefix(location, path) /\ path \notin zero_sized})

\* _get_hdfs_urls: everything luigi.hdfs.listdir yields
get_hdfs_urls(location, present, zero_sized) ==
    SetToSeq({path \in present : IsPrefix(location, path)})

\* _get_local_urls: every file name os.walk yields
get_local_urls(location, present, zero_sized) ==
    SetToSeq({path \in present : IsPrefix(location, path)})

\* a local listing that leaves out the files of size 0
get_local_urls_sized(location, present, zero_sized) ==
    SetToSeq({path \in present : IsPrefix(location, path) /\ path \notin zero_sized})

\* lines 86-91: the files found below one source location, by the scheme of
\* the location.  The order of a listing is the backend's; initialize sorts
\* the whole candidate list before it uses it.
get_urls(location, present, zero_sized) ==
    IF startswith(location, S3) THEN get_s3_urls(location, present, zero_sized)
    ELSE IF startswith(location, HDFS) THEN get_hdfs_urls(location, present, zero_sized)
    ELSE get_local_urls(location, present, zero_sized)

\* _get_requirements: the listings of the source locations one after the
\* other, without the urls the ledger includes
RECURSIVE get_requirements(_, _, _, _)
get_requirements(metadata, locations, present, zero_sized) ==
    IF locations = <<>> THEN <<>>
    ELSE SelectSeq(get_urls(Head(locations), present, zero_sized),
                   LAMBDA url : ~includes_url(metadata, url))
             \o get_requirements(metadata, Tail(locations), present, zero_sized)

\* a min_batch_id that restarts at the high-water mark itself
min_batch_id_reused(metadata) == metadata.max_batch_id

\* line 59: min_batch_id = self.metadata.max_batch_id + 1
min_batch_id(metadata) == metadata.max_batch_id + 1

\* a batch id that counts the file being placed
next_batch_id_counting(metadata_min, planned, capacity) ==
    metadata_min + ((planned + 1) \div capacity)

\* line 65: min_batch_id + (len(self.requirements) / self.files_per_batch),
\* the integer division of Python 2 (capacity > 0 here, 0 raises)
next_batch_id(metadata_min, planned, capacity) ==
    metadata_min + (planned \div capacity)

(***************************************************************************)
(* State.                                                                  *)
(***************************************************************************)
VARIABLES
    files,              \* the files present below the source locations
    empty,              \* the files among them whose size is 0
    source,             \* the `source` parameter: a list of source locations
    files_per_batch,    \* the `files_per_batch` parameter
    stored,             \* the metadata file <output_root>/_metadata.tsv
    pc,                 \* where the task instance is
    has_requirements,   \* hasattr(self, 'requirements')
    requirements,       \* self.requirements (the urls)
    metadata,           \* self.metadata
    base,               \* min_batch_id, the local of initialize
    pending,            \* what the loop of initialize has still to visit
    called,             \* the last method called by the scheduler
    outcome,            \* how that call ended
    listing_failed,     \* history: the enumeration of this task raised
    listed,             \* history: the files the enumeration of this task saw
    persisted,          \* history: the Metadata written by the last to_file
    persisted_listed,   \* history: `listed` of the run that wrote it
    registered,         \* history: the batch ids registered in self.metadata
    failed_attempt,     \* history: the plan of the run whose job failed last
    path_to_batch,      \* self.path_to_batch, as the map workers find it
    mapped,             \* the last call of mapper: its input and what it did
    map_status,         \* whether the map worker runs or has raised
    lines_done,         \* the number of lines the map worker has been given
    emitted,            \* the (key, value) pairs handed to the reduce stage
    reducers,           \* where the execution of reducer is, for every key
    outputs             \* the output files: path -> what has been written

vars == <<files, empty, source, files_per_batch, stored, pc, has_requirements,
          requirements, metadata, base, pending, called, outcome,
          listing_failed, listed, persisted, persisted_listed, registered,
          failed_attempt, path_to_batch, mapped, map_status, lines_done,
          emitted, reducers, outputs>>

mapreduce == <<path_to_batch, mapped, map_status, lines_done, emitted,
               reducers, outputs>>
config == <<source, files_per_batch, empty>>
task == <<pc, has_requirements, requirements, metadata, base, pending,
          called, outcome, listing_failed, listed>>
history == <<persisted, persisted_listed, failed_attempt>>

NoFile == [exists |-> FALSE, data |-> <<>>]
\* the task has no attribute path_to_batch
Unset == [set |-> FALSE, table |-> EmptyMap]
\* no call of mapper yet
NotMapped == [line |-> "", file |-> <<>>, raised |-> "none", out |-> <<>>]
NoAttempt == [failed |-> FALSE, listed |-> {}, requirements |-> <<>>,
              url_to_batch_id |-> EmptyMap]

Covered(present) ==
    {path \in present : \E i \in 1..Len(source) : IsPrefix(source[i], path)}

\* a task instance that has no attribute yet, and no metadata file
InitTask ==
    /\ stored = NoFile
    /\ pc = "idle"
    /\ has_requirements = FALSE
    /\ requirements = <<>>
    /\ metadata = Metadata
    /\ base = 0
    /\ pending = <<>>
    /\ called = "none"
    /\ outcome = "none"
    /\ listing_failed = FALSE
    /\ listed = {}
    /\ persisted = Metadata
    /\ persisted_listed = {}
    /\ registered = <<>>
    /\ failed_attempt = NoAttempt

\* no map/reduce job is running
InitMapReduce ==
    /\ path_to_batch = Unset
    /\ mapped = NotMapped
    /\ map_status = "running"
    /\ lines_done = 0
    /\ emitted = <<>>
    /\ reducers = EmptyMap
    /\ outputs = EmptyMap

Init ==
    /\ files \in {present \in SUBSET AllPaths : Cardinality(present) <= 1}
    /\ empty = {}
    /\ source \in SourceLists
    /\ files_per_batch \in 0..MaxCapacity
    /\ InitTask
    /\ InitMapReduce

(***************************************************************************)
(* CanonicalizationTask: initialize, requires, complete, run.              *)
(***************************************************************************)
\* a load that keeps the entries parsed before the line that raises
RECURSIVE from_lines_partial(_)
from_lines_partial(lines) ==
    IF lines = <<>> THEN Metadata
    ELSE IF from_lines(lines).ok THEN from_lines(lines).metadata
    ELSE from_lines_partial(Front(lines))

load_metadata_partial(file) ==
    IF file.exists THEN from_lines_partial(readlines(file.data)) ELSE Metadata

\* lines 49-57: the metadata file parsed, or an empty Metadata when the
\* file cannot be opened or from_file raises
load_metadata(file) ==
    IF file.exists /\ from_file(file.data).ok
    THEN from_file(file.data).metadata
    ELSE Metadata

\* initialize, lines 43-63: the ledger is loaded, self.requirements is set
\* to the empty list and the sources are enumerated; the enumeration either
\* raises (a listing failure) or gives the sorted candidates of the loop
initialize_begin(caller) ==
    /\ pc = "idle"
    /\ ~has_requirements
    /\ called' = caller
    /\ metadata' = load_metadata(stored)
    /\ base' = min_batch_id(metadata')
    /\ has_requirements' = TRUE
    /\ requirements' = <<>>
    /\ \E raises \in BOOLEAN :
         IF raises
         THEN /\ listing_failed' = TRUE
              /\ listed' = listed
              /\ pending' = <<>>
              /\ outcome' = "raised"
              /\ pc' = "idle"
         ELSE /\ listing_failed' = listing_failed
              /\ listed' = Covered(files)
              /\ pending' = sorted(get_requirements(metadata', source, files, empty))
              /\ outcome' = "none"
              /\ pc' = "initialize"
    /\ UNCHANGED <<files, config, stored, history, registered, mapreduce>>

\* requires, lines 77-78: the cached list is returned
requires_cached(caller) ==
    /\ pc = "idle"
    /\ has_requirements
    /\ called' = caller
    /\ outcome' = "returned"
    /\ UNCHANGED <<files, config, stored, pc, has_requirements, requirements,
                   metadata, base, pending, listing_failed, listed, history,
                   registered, mapreduce>>

\* requires(), called by the scheduler for the dependencies of the task
requires ==
    \/ requires_cached("requires")
    \/ initialize_begin("requires")

\* complete(): len(self.requires()) == 0
complete ==
    \/ requires_cached("complete")
    \/ initialize_begin("complete")

\* initialize, lines 63-68: one iteration of the loop.  The division by a
\* files_per_batch of 0 raises before register_url is reached.
initialize_step ==
    /\ pc = "initialize"
    /\ pending # <<>>
    /\ IF files_per_batch = 0
       THEN /\ outcome' = "raised"
            /\ pc' = "idle"
            /\ pending' = <<>>
            /\ UNCHANGED <<metadata, requirements>>
       ELSE LET path == Head(pending)
                batch_id == next_batch_id(base, Len(requirements), files_per_batch)
            IN  /\ metadata' = register_url(metadata, batch_id, path)
                /\ requirements' = Append(requirements, path)
                /\ pending' = Tail(pending)
                /\ UNCHANGED <<outcome, pc>>
    /\ UNCHANGED <<files, config, stored, has_requirements, base, called,
                   listing_failed, listed, history, registered, mapreduce>>

\* the loop is over: initialize returns, and so does the requires() or
\* complete() that called it
initialize_return ==
    /\ pc = "initialize"
    /\ pending = <<>>
    /\ pc' = "idle"
    /\ outcome' = "returned"
    /\ UNCHANGED <<files, config, stored, has_requirements, requirements,
                   metadata, base, pending, called, listing_failed, listed,
                   history, registered, mapreduce>>

\* what the last complete() told the scheduler
ReportedComplete ==
    called = "complete" /\ outcome = "returned" /\ Len(requirements) = 0
ReportedIncomplete ==
    called = "complete" /\ outcome = "returned" /\ Len(requirements) > 0

\* history: what the task has enumerated and planned
Attempt ==
    [failed |-> TRUE, listed |-> listed, requirements |-> requirements,
     url_to_batch_id |-> [url \in {requirements[i] : i \in 1..Len(requirements)} |->
                             metadata.url_to_batch_id[url]]]

\* a run that writes the ledger before it starts the job
run_begin_persisting ==
    /\ pc = "idle"
    /\ called = "complete" /\ outcome = "returned" /\ Len(requirements) > 0
    /\ pc' = "job"
    /\ \E order \in Orders(DOMAIN metadata.url_to_batch_id) :
         stored' = [exists |-> TRUE, data |-> to_file(metadata, order)]
    /\ UNCHANGED <<files, config, has_requirements, requirements,
                   metadata, base, pending, called, outcome, listing_failed,
                   listed, history, registered, mapreduce>>

\* run, line 189: the scheduler runs a task that reported itself incomplete;
\* super().run() starts the map/reduce job
run_begin ==
    /\ pc = "idle"
    /\ ReportedIncomplete
    /\ pc' = "job"
    /\ UNCHANGED <<files, config, stored, has_requirements, requirements,
                   metadata, base, pending, called, outcome, listing_failed,
                   listed, history, registered, mapreduce>>

\* a run that writes the ledger although the job raised
run_failure_persisting ==
    /\ pc = "job"
    /\ pc' = "failed"
    /\ \E order \in Orders(DOMAIN metadata.url_to_batch_id) :
         stored' = [exists |-> TRUE, data |-> to_file(metadata, order)]
    /\ failed_attempt' = Attempt
    /\ UNCHANGED <<files, config, has_requirements, requirements, metadata,
                   base, pending, called, outcome, listing_failed, listed,
                   persisted, persisted_listed, registered, mapreduce>>

\* run, line 189: super().run() raises; lines 190-191 are not reached
run_failure ==
    /\ pc = "job"
    /\ pc' = "failed"
    /\ failed_attempt' = Attempt
    /\ UNCHANGED <<files, config, stored, has_requirements, requirements,
                   metadata, base, pending, called, outcome, listing_failed,
                   listed, persisted, persisted_listed, registered, mapreduce>>

\* run, lines 189-191: super().run() returns and the ledger is written
run_success ==
    /\ pc = "job"
    /\ pc' = "done"
    /\ \E order \in Orders(DOMAIN metadata.url_to_batch_id) :
         stored' = [exists |-> TRUE, data |-> to_file(metadata, order)]
    /\ persisted' = metadata
    /\ persisted_listed' = listed
    /\ failed_attempt' = NoAttempt
    /\ UNCHANGED <<files, config, has_requirements, requirements, metadata,
                   base, pending, called, outcome, listing_failed, listed,
                   registered, mapreduce>>

\* a later invocation of the pipeline: a new process with a new task
\* instance, which has no attribute yet.  It may come at any point of the
\* previous one (which is then cancelled).
NewTask ==
    /\ pc' = "idle"
    /\ has_requirements' = FALSE
    /\ requirements' = <<>>
    /\ metadata' = Metadata
    /\ base' = 0
    /\ pending' = <<>>
    /\ called' = "none"
    /\ outcome' = "none"
    /\ listing_failed' = FALSE
    /\ listed' = {}
    /\ UNCHANGED <<files, config, stored, history, registered, mapreduce>>

\* the sources are append-only: a file appears below a source location
AddFile ==
    /\ Cardinality(files) < MaxFiles
    /\ \E path \in AllPaths \ files : files' = files \cup {path}
    /\ UNCHANGED <<config, stored, task, history, registered, mapreduce>>

\* a file of any size appears below a source location of any scheme
AddSizedFile ==
    /\ Cardinality(files) < MaxFiles
    /\ \E path \in SchemePaths \ files, zero_sized \in BOOLEAN :
         /\ files' = files \cup {path}
         /\ empty' = IF zero_sized THEN empty \cup {path} ELSE empty
    /\ UNCHANGED <<source, files_per_batch, stored, task, history, registered, mapreduce>>

Next ==
    \/ requires
    \/ complete
    \/ initialize_step
    \/ initialize_return
    \/ run_begin
    \/ run_failure
    \/ run_success
    \/ NewTask
    \/ AddFile

Spec == Init /\ [][Next]_vars

\* the pipeline over the three storage backends, with files of size 0
InitSources ==
    /\ files = {}
    /\ empty = {}
    /\ source \in SchemeSourceLists
    /\ files_per_batch \in 1..MaxCapacity
    /\ InitTask
    /\ InitMapReduce

NextSources ==
    \/ requires
    \/ complete
    \/ initialize_step
    \/ initialize_return
    \/ run_begin
    \/ run_failure
    \/ run_success
    \/ NewTask
    \/ AddSizedFile

SpecSources == InitSources /\ [][NextSources]_vars

TypeOK ==
    /\ files \subseteq AllPaths \cup SchemePaths
    /\ empty \subseteq files
    /\ pc \in {"idle", "initialize", "job", "failed", "done"}
    /\ outcome \in {"none", "raised", "returned"}
    /\ called \in {"none", "requires", "complete"}

(***************************************************************************)
(* The ledger on its own: any sequence of register_url calls, to_file and  *)
(* from_file on one Metadata object and one file.                          *)
(***************************************************************************)
InitMetadata ==
    /\ files = {}
    /\ empty = {}
    /\ source = << <<>> >>
    /\ files_per_batch = 1
    /\ InitTask
    /\ InitMapReduce

others == <<files, config, pc, has_requirements, requirements, base, pending,
            called, outcome, listing_failed, listed, persisted_listed,
            failed_attempt, mapreduce>>

\* metadata.register_url(batch_id, url) with any non-negative batch id
call_register_url ==
    /\ Len(registered) < MaxRegistrations
    /\ \E batch_id \in 0..MaxBatchId, url \in AllPaths :
         /\ metadata' = register_url(metadata, batch_id, url)
         /\ registered' = Append(registered, batch_id)
    /\ UNCHANGED <<stored, persisted, others>>

\* metadata.to_file(output_file)
call_to_file ==
    /\ \E order \in Orders(DOMAIN metadata.url_to_batch_id) :
         stored' = [exists |-> TRUE, data |-> to_file(metadata, order)]
    /\ persisted' = metadata
    /\ UNCHANGED <<metadata, registered, others>>

\* metadata = Metadata.from_file(metadata_file), when it does not raise: a
\* new Metadata in which every line of the file has been registered
call_from_file ==
    /\ stored.exists
    /\ from_file(stored.data).ok
    /\ metadata' = from_file(stored.data).metadata
    /\ registered' = [i \in 1..Len(readlines(stored.data)) |->
                         parse_line(readlines(stored.data)[i]).batch_id]
    /\ UNCHANGED <<stored, persisted, others>>

NextMetadata ==
    \/ call_register_url
    \/ call_to_file
    \/ call_from_file

SpecMetadata == InitMetadata /\ [][NextMetadata]_vars

(***************************************************************************)
(* The map stage: CanonicalizationTask.mapper.                             *)
(*                                                                         *)
(* A raw input line is named by its text; decode_json gives the structure  *)
(* the text decodes to.  Mappings (the event, its metadata) are functions  *)
(* from keys to values; a timestamp is the sequence of its parts; the      *)
(* nested payload is a string or a mapping, named by its text.             *)
(***************************************************************************)
\* VERSION = "1"
VERSION == "1"

JsonString(text) == [kind |-> "str", text |-> text]
JsonObject(text) == [kind |-> "dict", text |-> text]

RawTime1 == <<"2023-01-01", "T", "10:00:00", "+00:00">>
RawTime2 == <<"2023-01-02", "T", "09:30:00", "+00:00">>
Plain == [event_type |-> "play_video", time |-> RawTime1]

\* the raw lines of the model
Lines ==
    {"garbage", "{}", "no_event_type", "no_time", "bad_time", "plain",
     "other_day", "dated", "identified", "versioned", "payload_empty",
     "payload_json", "payload_broken", "payload_dict"}

\* the structure a raw line decodes to
decode_json(line) ==
    CASE line = "{}" -> EmptyMap
      [] line = "no_event_type" -> [time |-> RawTime1]
      [] line = "no_time" -> [event_type |-> "play_video"]
      [] line = "bad_time" -> [event_type |-> "play_video", time |-> <<"yesterday">>]
      [] line = "plain" -> Plain
      [] line = "other_day" -> [event_type |-> "play_video", time |-> RawTime2]
      [] line = "dated" -> ("date" :> <<"1999-12-31">>) @@ Plain
      [] line = "identified" ->
             ("metadata" :> [id |-> [kind |-> "given", of |-> "event-17"]]) @@ Plain
      [] line = "versioned" -> ("metadata" :> [version |-> "0"]) @@ Plain
      [] line = "payload_empty" -> ("event" :> JsonString("")) @@ Plain
      [] line = "payload_json" -> ("event" :> JsonString("{a: 1}")) @@ Plain
      [] line = "payload_broken" -> ("event" :> JsonString("{a: ")) @@ Plain
      [] line = "payload_dict" -> ("event" :> JsonObject("{a: 1}")) @@ Plain

\* eventlog.parse_json_event: the decoded record, or None (ok = FALSE) for a
\* line that has no parseable structure
parse_json_event(line) ==
    IF line = "garbage" THEN [ok |-> FALSE, event |-> EmptyMap]
    ELSE [ok |-> TRUE, event |-> decode_json(line)]

\* eventlog.get_event_time_string: the timestamp of the event in canonical
\* form (date, "T", time of day), or None (ok = FALSE) when the event has no
\* time or one that cannot be read
get_event_time_string(event) ==
    IF "time" \in DOMAIN event /\ Len(event.time) >= 3 /\ event.time[2] = "T"
    THEN [ok |-> TRUE, time |-> SubSeq(event.time, 1, 3)]
    ELSE [ok |-> FALSE, time |-> <<>>]

\* cjson.decode of the text of a nested payload: ok = FALSE when it raises
cjson_decode(text) ==
    IF text = "{a: 1}" THEN [ok |-> TRUE, value |-> JsonObject("{a: 1}")]
    ELSE [ok |-> FALSE, value |-> JsonObject("{}")]

\* dict.setdefault and dict item assignment
setdefault(mapping, key, value) ==
    IF key \in DOMAIN mapping THEN mapping ELSE (key :> value) @@ mapping
setitem(mapping, key, value) == (key :> value) @@ mapping

\* standardized_time.split("T")[0]
date_of(time) ==
    LET i == CHOOSE k \in 1..(Len(time) + 1) :
                 /\ k = Len(time) + 1 \/ time[k] = "T"
                 /\ \A j \in 1..(k - 1) : time[j] # "T"
    IN  SubSeq(time, 1, i - 1)

\* compute_hash: the md5 digest of the raw line
compute_hash(line) == [kind |-> "md5", of |-> line]

\* get_batch_id: self.path_to_batch[file_path]; AttributeError when the task
\* has no such attribute, KeyError when the path is not in it
get_batch_id(attribute, file_path) ==
    IF ~attribute.set THEN [raised |-> "AttributeError", batch_id |-> 0]
    ELSE IF file_path \notin DOMAIN attribute.table
    THEN [raised |-> "KeyError", batch_id |-> 0]
    ELSE [raised |-> "none", batch_id |-> attribute.table[file_path]]

\* `if content and isinstance(content, basestring)`
is_nonempty_string(event) ==
    /\ "event" \in DOMAIN event
    /\ event.event.kind = "str"
    /\ event.event.text # ""

\* lines 140-146: the context defaulted, a string payload decoded
decode_payload(event) ==
    LET with_context == setdefault(event, "context", EmptyMap)
    IN  IF is_nonempty_string(with_context)
        THEN setitem(with_context, "event",
                     IF cjson_decode(with_context.event.text).ok
                     THEN cjson_decode(with_context.event.text).value
                     ELSE JsonObject("{}"))
        ELSE with_context

\* lines 125-127: event['time'] set, event['date'] defaulted
set_time_and_date(event, standardized_time) ==
    setdefault(setitem(event, "time", standardized_time),
               "date", date_of(standardized_time))

\* lines 129-138: the metadata of the event
stamp_metadata(event, line, map_input_file, batch_id, current_time) ==
    LET found == IF "metadata" \in DOMAIN event THEN event.metadata ELSE EmptyMap
        versioned == setdefault(found, "version", VERSION)
        modified == setitem(versioned, "last_modified", current_time)
        identified == setdefault(modified, "id", compute_hash(line))
        filed == setitem(identified, "original_file", map_input_file)
    IN  setitem(event, "metadata", setitem(filed, "batch_id", batch_id))

\* cjson.encode: the JSON text of an event, named by the event it encodes
cjson_encode(event) == [kind |-> "json", of |-> event]

\* a mapper that goes on with a record that has no event_type
mapper_untyped(line, map_input_file, attribute, current_time) ==
    LET parsed == parse_json_event(line)
        event == parsed.event
        time == get_event_time_string(event)
        looked_up == get_batch_id(attribute, map_input_file)
        canonical ==
            decode_payload(
                stamp_metadata(set_time_and_date(event, time.time), line,
                               map_input_file, looked_up.batch_id, current_time))
    IN  IF ~parsed.ok \/ DOMAIN event = {} \/ ~time.ok
        THEN [raised |-> "none", out |-> <<>>]
        ELSE IF looked_up.raised # "none"
        THEN [raised |-> looked_up.raised, out |-> <<>>]
        ELSE [raised |-> "none",
              out |-> << [key |-> <<date_of(time.time), looked_up.batch_id>>,
                          value |-> cjson_encode(canonical)] >>]

\* mapper: what one call yields for one line (out), or the exception it
\* raises (raised)
mapper(line, map_input_file, attribute, current_time) ==
    LET parsed == parse_json_event(line)
        event == parsed.event
        time == get_event_time_string(event)
        looked_up == get_batch_id(attribute, map_input_file)
        canonical ==
            decode_payload(
                stamp_metadata(set_time_and_date(event, time.time), line,
                               map_input_file, looked_up.batch_id, current_time))
    IN  IF ~parsed.ok \/ DOMAIN event = {} \/ "event_type" \notin DOMAIN event
           \/ ~time.ok
        THEN [raised |-> "none", out |-> <<>>]
        ELSE IF looked_up.raised # "none"
        THEN [raised |-> looked_up.raised, out |-> <<>>]
        ELSE [raised |-> "none",
              out |-> << [key |-> <<date_of(time.time), looked_up.batch_id>>,
                          value |-> cjson_encode(canonical)] >>]

\* the ledger and the plan of a run that found the new files "dx" and "x"
\* below the source "" and no metadata file
PlannedFiles == << <<100, 120>>, <<120>> >>
Planned(capacity) ==
    register_url(
        register_url(Metadata,
                     next_batch_id(min_batch_id(Metadata), 0, capacity),
                     PlannedFiles[1]),
        next_batch_id(min_batch_id(Metadata), 1, capacity),
        PlannedFiles[2])

\* what a map worker may find as self.path_to_batch: initialize does not
\* set the attribute, so it is absent unless something else provided a
\* table, which then has every planned file or not, and any batch ids
PathToBatchChoices ==
    {Unset} \cup
    {[set |-> TRUE, table |-> table] :
        table \in UNION {[paths -> 1..2] :
                            paths \in {{PlannedFiles[1], PlannedFiles[2]},
                                       {PlannedFiles[1]}}}}

\* the task of a run whose map/reduce job has been started
InitRunning ==
    /\ files = {PlannedFiles[1], PlannedFiles[2]}
    /\ empty = {}
    /\ source = << <<>> >>
    /\ files_per_batch \in 1..MaxCapacity
    /\ stored = NoFile
    /\ pc = "job"
    /\ has_requirements = TRUE
    /\ requirements = PlannedFiles
    /\ metadata = Planned(files_per_batch)
    /\ base = min_batch_id(Metadata)
    /\ pending = <<>>
    /\ called = "complete"
    /\ outcome = "returned"
    /\ listing_failed = FALSE
    /\ listed = files
    /\ persisted = Metadata
    /\ persisted_listed = {}
    /\ registered = <<>>
    /\ failed_attempt = NoAttempt

InitMap ==
    /\ InitRunning
    /\ path_to_batch \in PathToBatchChoices
    /\ mapped = NotMapped
    /\ map_status = "running"
    /\ lines_done = 0
    /\ emitted = <<>>
    /\ reducers = EmptyMap
    /\ outputs = EmptyMap

\* self.current_time, set by initialize
current_time == "run-start"

\* the streaming runner gives the next line of an input file to mapper; an
\* exception of mapper ends the map worker
map_line ==
    /\ pc = "job"
    /\ map_status = "running"
    /\ lines_done < MaxLines
    /\ \E line \in Lines, map_input_file \in Range(requirements) :
         LET result == mapper(line, map_input_file, path_to_batch, current_time)
         IN  /\ mapped' = [line |-> line, file |-> map_input_file,
                           raised |-> result.raised, out |-> result.out]
             /\ map_status' = IF result.raised = "none" THEN "running" ELSE "failed"
             /\ emitted' = emitted \o result.out
    /\ lines_done' = lines_done + 1
    /\ UNCHANGED <<files, config, stored, task, history, registered,
                   path_to_batch, reducers, outputs>>

NextMap == map_line

SpecMap == InitMap /\ [][NextMap]_vars

(***************************************************************************)
(* The reduce stage.  An output file is the sequence of the lines written  *)
(* to it; a line is the text written and whether its '\n' has been         *)
(* written.  The content is the one gunzip gives.                          *)
(***************************************************************************)
output_root == "root"

\* the character of a character code that format_int gives
chr(code) ==
    CASE code = 48 -> "0" [] code = 49 -> "1" [] code = 50 -> "2"
      [] code = 51 -> "3" [] code = 52 -> "4" [] code = 53 -> "5"
      [] code = 54 -> "6" [] code = 55 -> "7" [] code = 56 -> "8"
      [] code = 57 -> "9" [] OTHER -> "-"
chars(codes) == [i \in 1..Len(codes) |-> chr(codes[i])]

\* an output path that leaves the date out
output_path_undated(key) ==
    <<output_root, "/", "batch_">> \o chars(format_int(key[2])) \o <<".gz">>

\* lines 162-166: url_path_join(output_root, 'dt=' + date_string,
\* 'batch_{0}.gz'.format(batch_id))
output_path(key) ==
    <<output_root, "/", "dt=">> \o key[1]
        \o <<"/", "batch_">> \o chars(format_int(key[2])) \o <<".gz">>

\* value.strip(): the text cjson.encode gives starts with '{' and ends with
\* '}', so nothing is taken off
value_strip(value) == value

\* output_file.write(text) and output_file.write('\n')
write_text(content, text) ==
    Append(content, [text |-> text, terminated |-> FALSE])
write_newline(content) ==
    IF content # <<>> /\ ~Last(content).terminated
    THEN [content EXCEPT ![Len(content)].terminated = TRUE]
    ELSE Append(content, [text |-> cjson_encode(EmptyMap), terminated |-> TRUE])

\* the keys of the job and the values the shuffle gives reducer for a key
Keys(pairs) == {pairs[i].key : i \in 1..Len(pairs)}
RECURSIVE values_of(_, _)
values_of(pairs, key) ==
    IF pairs = <<>> THEN <<>>
    ELSE IF Head(pairs).key = key
    THEN <<Head(pairs).value>> \o values_of(Tail(pairs), key)
    ELSE values_of(Tail(pairs), key)

NotStarted == [pc |-> "idle", given |-> <<>>, todo |-> <<>>, attempts |-> 0]

\* what the map stage yields for the lines of its input, in their order
RECURSIVE map_all(_, _, _)
map_all(inputs, attribute, time) ==
    IF inputs = <<>> THEN <<>>
    ELSE mapper(Head(inputs).line, Head(inputs).file, attribute, time).out
            \o map_all(Tail(inputs), attribute, time)

\* the lines of the input files of the reduce specification
MapInputs ==
    { [line |-> "plain", file |-> PlannedFiles[1]],
      [line |-> "plain", file |-> PlannedFiles[2]],
      [line |-> "other_day", file |-> PlannedFiles[1]] }

\* a job whose map workers had the assignment of the planner as their batch
\* table and have finished
InitReduce ==
    /\ InitRunning
    /\ path_to_batch = [set |-> TRUE, table |-> metadata.url_to_batch_id]
    /\ mapped = NotMapped
    /\ map_status = "finished"
    /\ \E n \in 1..MaxLines :
         /\ lines_done = n
         /\ \E inputs \in [1..n -> MapInputs] :
              emitted = map_all(inputs, path_to_batch, current_time)
    /\ reducers = [key \in Keys(emitted) |-> NotStarted]
    /\ outputs = EmptyMap

\* an open that keeps what the file holds
reducer_open_appending(key) ==
    /\ pc = "job"
    /\ reducers[key].pc # "writing"
    /\ reducers[key].attempts < MaxAttempts
    /\ reducers' = [reducers EXCEPT ![key] =
                      [pc |-> "writing", given |-> values_of(emitted, key),
                       todo |-> values_of(emitted, key),
                       attempts |-> @.attempts + 1]]
    /\ outputs' = IF output_path(key) \in DOMAIN outputs THEN outputs
                  ELSE (output_path(key) :> <<>>) @@ outputs
    /\ UNCHANGED <<files, config, stored, task, history, registered,
                   path_to_batch, mapped, map_status, lines_done, emitted>>

\* lines 160-170: reducer is executed for a key, for the first time or once
\* more; open('w') leaves the file of output_path empty
reducer_open(key) ==
    /\ pc = "job"
    /\ reducers[key].pc # "writing"
    /\ reducers[key].attempts < MaxAttempts
    /\ reducers' = [reducers EXCEPT ![key] =
                      [pc |-> "writing", given |-> values_of(emitted, key),
                       todo |-> values_of(emitted, key),
                       attempts |-> @.attempts + 1]]
    /\ outputs' = (output_path(key) :> <<>>) @@ outputs
    /\ UNCHANGED <<files, config, stored, task, history, registered,
                   path_to_batch, mapped, map_status, lines_done, emitted>>

\* lines 171-174: one round of the loop over the values
reducer_write(key) ==
    /\ pc = "job"
    /\ reducers[key].pc = "writing"
    /\ reducers[key].todo # <<>>
    /\ outputs' = [outputs EXCEPT ![output_path(key)] =
                      write_newline(
                          write_text(@, value_strip(Head(reducers[key].todo))))]
    /\ reducers' = [reducers EXCEPT ![key].todo = Tail(@)]
    /\ UNCHANGED <<files, config, stored, task, history, registered,
                   path_to_batch, mapped, map_status, lines_done, emitted>>

\* lines 182-186: the loop is over, the file is closed, reducer returns
reducer_return(key) ==
    /\ pc = "job"
    /\ reducers[key].pc = "writing"
    /\ reducers[key].todo = <<>>
    /\ reducers' = [reducers EXCEPT ![key].pc = "done"]
    /\ UNCHANGED <<files, config, stored, task, history, registered,
                   path_to_batch, mapped, map_status, lines_done, emitted,
                   outputs>>

NextReduce ==
    \/ \E key \in DOMAIN reducers : reducer_open(key)
    \/ \E key \in DOMAIN reducers : reducer_write(key)
    \/ \E key \in DOMAIN reducers : reducer_return(key)

SpecReduce == InitReduce /\ [][NextReduce]_vars

(***************************************************************************)
(* Properties.                                                             *)
(***************************************************************************)
NoDuplicates(list) == \A i, j \in 1..Len(list) : list[i] = list[j] => i = j
IsPath(url) == \A i \in 1..Len(url) : url[i] \notin {TAB, NL}
Maximum(S) == CHOOSE n \in S : \A k \in S : k <= n
BatchIds(map) == {map[url] : url \in DOMAIN map}
InBatch(map, batch_id) == {url \in DOMAIN map : map[url] = batch_id}

\* C1: Idempotent re-run.  A task that has loaded the ledger persisted by a
\* successful run and has enumerated the same source set as that run
\* discovers no new file (its plan is empty) and reports itself complete.
C1_IdempotentRerun ==
    ( /\ pc = "idle"
      /\ outcome = "returned"
      /\ stored.exists
      /\ listed = persisted_listed )
    => /\ requirements = <<>>
       /\ called = "complete" => ReportedComplete

\* C2: Ledger round trip.  When a ledger whose keys are paths without tabs
\* or newlines has been written by to_file, the ledger that from_file reads
\* back from the file has the same path -> batch_id mapping and the same
\* max_batch_id.
C2_LedgerRoundTrip ==
    ( /\ pc = "initialize"
      /\ requirements = <<>>
      /\ stored.exists
      /\ \A url \in DOMAIN persisted.url_to_batch_id : IsPath(url) )
    => /\ metadata.url_to_batch_id = persisted.url_to_batch_id
       /\ metadata.max_batch_id = persisted.max_batch_id

C4_StableIncreasingIds ==
    [][ (pc = "job" /\ pc' = "done")
        => /\ \A url \in DOMAIN persisted.url_to_batch_id :
                 /\ url \in DOMAIN persisted'.url_to_batch_id
                 /\ persisted'.url_to_batch_id[url] = persisted.url_to_batch_id[url]
           /\ \A url \in Range(requirements) :
                 /\ url \notin DOMAIN persisted.url_to_batch_id
                 /\ metadata.url_to_batch_id[url] > persisted.max_batch_id
           /\ persisted'.max_batch_id >= persisted.max_batch_id ]_vars

\* C5: The ledger is persisted only after the map/reduce job succeeded.  A
\* step in which the job fails leaves the metadata file as it was, and the
\* metadata file changes only in the step in which the job succeeds.
C5_PersistOnlyAfterSuccess ==
    [][ /\ (pc = "job" /\ pc' = "failed") => stored' = stored
        /\ stored' # stored => (pc = "job" /\ pc' = "done") ]_vars

\* C5 witness: the job of the first run has failed; the registrations of the
\* planning are in the in-memory ledger and no metadata file exists.
C5_Witness ==
    /\ pc = "failed"
    /\ ~stored.exists
    /\ DOMAIN metadata.url_to_batch_id # {}

\* C6: A listing failure aborts the run.  Once the enumeration of a task
\* has raised, no call of requires() or complete() on that task returns a
\* plan, and the task is not reported complete.
C6_ListingFailureAborts ==
    listing_failed => (outcome # "returned" /\ ~ReportedComplete)

\* C7: A files_per_batch of 0 is a fatal configuration error.  A task
\* configured with capacity 0 never returns a plan, never reports itself
\* complete, registers no path and starts no map/reduce job.
C7_ZeroCapacityFatal ==
    files_per_batch = 0
    => /\ outcome # "returned"
       /\ ~ReportedComplete
       /\ DOMAIN metadata.url_to_batch_id = {}
       /\ pc \notin {"job", "failed", "done"}

\* C8: Ledger high-water mark.  max_batch_id is the greatest batch id ever
\* registered in the ledger (0 when nothing was registered), and every path
\* of the ledger maps to a batch id that is at most max_batch_id.
C8_HighWaterMark ==
    /\ metadata.max_batch_id = Maximum({0} \cup Range(registered))
    /\ \A url \in DOMAIN metadata.url_to_batch_id :
           metadata.url_to_batch_id[url] <= metadata.max_batch_id

\* C8 witness: the last batch id registered is smaller than an earlier one,
\* and the path of the greatest batch id has been registered again with a
\* smaller one, so that no path of the ledger holds the high-water mark.
C8_Witness ==
    /\ Len(registered) >= 2
    /\ registered[Len(registered)] < metadata.max_batch_id
    /\ DOMAIN metadata.url_to_batch_id # {}
    /\ \A url \in DOMAIN metadata.url_to_batch_id :
           metadata.url_to_batch_id[url] < metadata.max_batch_id

\* C9: Registration is monotonic within a run.  A step of the planner
\* leaves the batch id of every path already in the ledger as it was, and
\* the plan holds every path once.
C9_MonotonicRegistration ==
    [][ (pc = "initialize" /\ has_requirements')
        => /\ \A url \in DOMAIN metadata.url_to_batch_id :
                 /\ url \in DOMAIN metadata'.url_to_batch_id
                 /\ metadata'.url_to_batch_id[url] = metadata.url_to_batch_id[url]
           /\ NoDuplicates(requirements') ]_vars

\* C10: Batch capacity bound.  With a capacity of at least 1, no batch id
\* has more than files_per_batch paths, in the ledger of the task and in
\* the ledger last persisted.
C10_BatchCapacity ==
    files_per_batch >= 1
    => /\ \A batch_id \in BatchIds(metadata.url_to_batch_id) :
              Cardinality(InBatch(metadata.url_to_batch_id, batch_id))
                  <= files_per_batch
       /\ \A batch_id \in BatchIds(persisted.url_to_batch_id) :
              Cardinality(InBatch(persisted.url_to_batch_id, batch_id))
                  <= files_per_batch

\* C10 witness: a later run has been persisted; its ledger holds the
\* entries loaded from the earlier run and the new ones, and a batch is
\* full.
C10_Witness ==
    /\ pc = "done"
    /\ files_per_batch >= 1
    /\ Cardinality(DOMAIN persisted.url_to_batch_id) > files_per_batch
    /\ \E batch_id \in BatchIds(persisted.url_to_batch_id) :
           /\ batch_id < base
           /\ Cardinality(InBatch(persisted.url_to_batch_id, batch_id))
                  = files_per_batch

\* C11: The enumeration never yields a zero-byte file.  Whatever the scheme
\* of a source location, no file of size 0 is a candidate of the planner,
\* is planned or is registered in the ledger.
C11_NoZeroByteFile ==
    \A path \in Range(pending) \cup Range(requirements)
                 \cup DOMAIN metadata.url_to_batch_id :
        path \notin empty

\* C16: The ledger load is all-or-nothing and never fails the run.  When
\* the metadata file is absent or one of its lines does not parse,
\* initialize goes on with an empty ledger: no path of the file is included,
\* max_batch_id is 0 and the new batch ids start from 1.
C16_LoadAllOrNothing ==
    ( /\ pc = "initialize"
      /\ requirements = <<>>
      /\ ~stored.exists \/ ~from_file(stored.data).ok )
    => /\ metadata = Metadata
       /\ base = 1

\* C16 witness: initialize has loaded a metadata file whose first line
\* parses and whose later line does not.
C16_Witness ==
    /\ pc = "initialize"
    /\ requirements = <<>>
    /\ stored.exists
    /\ ~from_file(stored.data).ok
    /\ parse_line(readlines(stored.data)[1]).ok

\* C17: Re-running after a failure is safe.  When the job of a run has
\* failed and no run has succeeded since, a new run that enumerates the
\* same files plans the same new files, each one with the batch id it had
\* in the failed run.
C17_RetrySamePlan ==
    ( /\ failed_attempt.failed
      /\ pc = "idle"
      /\ outcome = "returned"
      /\ listed = failed_attempt.listed )
    => /\ requirements = failed_attempt.requirements
       /\ \A url \in Range(requirements) :
              metadata.url_to_batch_id[url] = failed_attempt.url_to_batch_id[url]

\* C17 witness: the retry is a new task, started from a metadata file that
\* an earlier run has persisted, and it has planned two files again.
C17_Witness ==
    /\ failed_attempt.failed
    /\ pc = "idle"
    /\ outcome = "returned"
    /\ called = "requires"
    /\ stored.exists
    /\ listed = failed_attempt.listed
    /\ Len(requirements) = 2

\* the lines the map stage has to drop
MalformedLines == {"garbage", "{}", "no_event_type", "no_time", "bad_time"}
\* the lines whose nested payload is a string
StringPayloadLines == {"payload_empty", "payload_json", "payload_broken"}

C13_BatchIdLookedUp ==
    ( /\ mapped.line \in Lines \ MalformedLines
      /\ mapped.file \in Range(requirements) )
    => /\ mapped.raised = "none"
       /\ Len(mapped.out) = 1
       /\ mapped.out[1].key[2] = get_batch_id_for_url(metadata, mapped.file)
       /\ mapped.out[1].value.of.metadata.batch_id
              = get_batch_id_for_url(metadata, mapped.file)

\* C14: The date of an emitted record.  Every record mapper yields has a
\* date field that is the date part of its time field, and is emitted under
\* that date.
C14_DateOfRecord ==
    \A i \in 1..Len(mapped.out) :
        /\ mapped.out[i].value.of.date = date_of(mapped.out[i].value.of.time)
        /\ mapped.out[i].key[1] = mapped.out[i].value.of.date

\* C20: Nested payload decoding.  When mapper has got the batch id of a
\* well-formed record whose payload is a string, it yields the record, and
\* the payload of the record is the value decoded from the string or, when
\* the decoding fails, an empty mapping; it is never a string.
C20_PayloadDecoded ==
    ( /\ mapped.line \in StringPayloadLines
      /\ mapped.raised = "none" )
    => /\ Len(mapped.out) = 1
       /\ mapped.out[1].value.of.event.kind = "dict"
       /\ mapped.out[1].value.of.event
              = ( IF cjson_decode(decode_json(mapped.line).event.text).ok
                  THEN cjson_decode(decode_json(mapped.line).event.text).value
                  ELSE JsonObject("{}") )

\* the lines of an output file that holds the values given, one per line
Written(values) ==
    [i \in 1..Len(values) |-> [text |-> values[i], terminated |-> TRUE]]

\* C15: Records are deduplicated.  When every reducer has returned, no
\* output file holds two lines whose records have the same metadata.id.
C15_Deduplicated ==
    (\A key \in DOMAIN reducers : reducers[key].pc = "done")
    => \A path \in DOMAIN outputs :
          \A i, j \in 1..Len(outputs[path]) :
              outputs[path][i].text.of.metadata.id
                  = outputs[path][j].text.of.metadata.id
              => i = j

\* C18: Reduce output is an idempotent overwrite.  When an execution of
\* reducer for a key has returned, whatever number of executions came
\* before, the file at root/dt=<date>/batch_<batch_id>.gz holds exactly one
\* newline-terminated line for every value that execution was given.
C18_IdempotentOverwrite ==
    \A key \in DOMAIN reducers :
        reducers[key].pc = "done"
        => /\ output_path(key)
                 = <<"root", "/", "dt=", key[1][1], "/", "batch_">>
                      \o chars(format_int(key[2])) \o <<".gz">>
           /\ output_path(key) \in DOMAIN outputs
           /\ outputs[output_path(key)] = Written(reducers[key].given)

\* C18 witness: the second execution of reducer for a key has returned and
\* had a value to write.
C18_Witness ==
    \E key \in DOMAIN reducers :
        /\ reducers[key].pc = "done"
        /\ reducers[key].attempts = 2
        /\ reducers[key].given # <<>>

\* C19: Reduce workers need no coordination.  However the executions of
\* reducer for different keys interleave, no two keys have the same output
\* path, and every line of the output file of a key is a value that was
\* emitted under that key.
C19_DisjointOutputs ==
    /\ \A key, other \in DOMAIN reducers :
          key # other => output_path(key) # output_path(other)
    /\ \A key \in DOMAIN reducers :
          output_path(key) \in DOMAIN outputs
          => \A i \in 1..Len(outputs[output_path(key)]) :
                \E j \in 1..Len(emitted) :
                    /\ emitted[j].key = key
                    /\ emitted[j].value = outputs[output_path(key)][i].text

\* C19 witness: two executions of reducer, for different keys, are both in
\* their loop and both have written a line.
C19_Witness ==
    \E key, other \in DOMAIN reducers :
        /\ key # other
        /\ reducers[key].pc = "writing"
        /\ reducers[other].pc = "writing"
        /\ outputs[output_path(key)] # <<>>
        /\ outputs[output_path(other)] # <<>>

====
